---- MODULE Spec2Model ----
(***************************************************************************)
(* Model of the QA service of src/main.py: four HTTP handlers (add,        *)
(* search, all, delete) and the module start-up code, over a Qdrant        *)
(* collection and a sentence-embedding model.                              *)
(*                                                                         *)
(* Texts are sequences of words.  The embedding model is an external       *)
(* neural network; it is represented by a deterministic bag-of-words       *)
(* embedding (one dimension per vocabulary word), which keeps the two      *)
(* properties the handlers rely on: the vector is a function of the text   *)
(* alone, and the template text and the bare question embed differently.   *)
(* The Qdrant client calls follow the client's documented behaviour:       *)
(* upsert is insert-or-replace by id, search ranks by cosine score and     *)
(* cuts at limit and score_threshold, scroll returns one page (default     *)
(* limit 10) in id order, delete removes the points matching every "must"  *)
(* condition.  Each handler runs without an await point after the body is  *)
(* parsed, so a handler is one atomic step; requests interleave in any     *)
(* order.  resp is the response of the request being answered; it is       *)
(* cleared when the response has been sent (Deliver), before the next      *)
(* handler runs.                                                           *)
(*                                                                         *)
(* uuid4() draws a random id: any value of the id space that was not       *)
(* handed to the store before (collisions are ignored), so the order of    *)
(* the ids is unrelated to the order of the adds.  An id drawn for a       *)
(* request that fails is never seen by the store or by a caller and is     *)
(* not recorded.                                                           *)
(*                                                                         *)
(* Several service processes share one Qdrant.  The start-up code of a     *)
(* process is three round trips with nothing held between them:            *)
(* get_collections, then, if the name was not listed, recreate_collection, *)
(* which is delete_collection followed by create_collection.  Each is a    *)
(* step of its own; other processes start and serve in between.  The      *)
(* start-up code has no try: a call that raises ends the import and the    *)
(* process is down, with whatever the earlier calls have done left as is.  *)
(***************************************************************************)
EXTENDS Integers, Sequences, FiniteSets, TLC

VARIABLES collections, points, issued, pc, resp, nAdds, anyDelete, deleted

vars == <<collections, points, issued, pc, resp, nAdds, anyDelete, deleted>>

(* ---------------------------- bounds ---------------------------------- *)
MaxAdds == 2
MaxTop == 2
MaxAddsAll == 11

(* ------------------------ program constants --------------------------- *)
COLLECTION_NAME == "qa_collection"
ScrollLimit == 10
ThresholdNum == 31
ThresholdDen == 100

(* ------------------------------ inputs -------------------------------- *)
Vocab == <<"Vopros:", "Otvet:", "w1", "w2", "w3">>
Questions == {<<"w1">>, <<"w1", "w2">>}
Answers == {<<"w3">>, <<"w3", "w3", "w3">>}
Pairs == [question : Questions, answer : Answers]
Tops == 0..MaxTop
SearchBodies == [query : Questions] \cup [query : Questions, top : Tops]
Faults == {"none", "encode", "upsert"}
None == <<>>
EncodeError == "embedding failed"
StoreError == "store unavailable"
LimitError == "invalid limit"
NotFoundError == "collection not found"
Procs == {"p1", "p2"}
Ids == 1..MaxAdds
EmptyPoints == [i \in {} |-> 0]

(* --------------------------- pure helpers ----------------------------- *)
Min(a, b) == IF a <= b THEN a ELSE b

RECURSIVE Count(_, _)
Count(text, w) ==
    IF text = <<>> THEN 0
    ELSE (IF Head(text) = w THEN 1 ELSE 0) + Count(Tail(text), w)

RECURSIVE DotFrom(_, _, _)
DotFrom(u, v, i) ==
    IF i > Len(u) THEN 0 ELSE u[i] * v[i] + DotFrom(u, v, i + 1)

Dot(u, v) == DotFrom(u, v, 1)

\* variant: the text that is embedded leaves the answer out
TemplateQuestionOnly(question, answer) == question

\* combined = f"Вопрос: {question} Ответ: {answer}"
Template(question, answer) == <<"Vopros:">> \o question \o <<"Otvet:">> \o answer

\* model.encode(text)
Embed(text) == [i \in 1..Len(Vocab) |-> Count(text, Vocab[i])]

\* variant: the id does not change from one call to the next
uuid4Fixed(space, used) == {1}

\* str(uuid4()): the values a draw can give, any id not handed out before
uuid4(space, used) == space \ used

\* PointStruct(id=..., vector=..., payload={"question":..., "answer":...})
PointStruct(id, vector, question, answer) ==
    [id |-> id, vector |-> vector,
     payload |-> [question |-> question, answer |-> answer]]

\* data.get("top")
GetTop(data) == IF "top" \in DOMAIN data THEN <<data.top>> ELSE None

(* --------------------------- vector store ----------------------------- *)
\* client.upsert(points=[point]): insert-or-replace by id
Upsert(pts, point) ==
    [i \in DOMAIN pts \cup {point.id} |->
        IF i = point.id THEN [vector |-> point.vector, payload |-> point.payload]
        ELSE pts[i]]

\* variant: the cut is at 0.51 instead of 0.31
AboveThresholdHigh(qv, v) ==
    LET d == Dot(qv, v)
    IN /\ d > 0
       /\ 100 * 100 * d * d > 51 * 51 * Dot(qv, qv) * Dot(v, v)

\* cosine score of a stored vector against the query vector is above
\* score_threshold (0.31): dot / (|qv| |v|) > 31/100
AboveThreshold(qv, v) ==
    LET d == Dot(qv, v)
    IN /\ d > 0
       /\ ThresholdDen * ThresholdDen * d * d
            > ThresholdNum * ThresholdNum * Dot(qv, qv) * Dot(v, v)

\* per stored point, the dot product with the query and the squared norm
Scores(pts, qv) ==
    [i \in DOMAIN pts |-> <<Dot(qv, pts[i].vector),
                            Dot(pts[i].vector, pts[i].vector)>>]

\* cosine score of point i is at least that of point j (both scores positive)
ScoreGE(sc, i, j) ==
    sc[i][1] * sc[i][1] * sc[j][2] >= sc[j][1] * sc[j][1] * sc[i][2]

Eligible(pts, qv) == {i \in DOMAIN pts : AboveThreshold(qv, pts[i].vector)}

Best(sc, ids) == {i \in ids : \A j \in ids : ScoreGE(sc, i, j)}

\* every ranking of at most k of ids, best score first; equal scores may come
\* in either order
RECURSIVE Ranked(_, _, _)
Ranked(sc, ids, k) ==
    IF k = 0 \/ ids = {} THEN {<<>>}
    ELSE UNION {{<<b>> \o r : r \in Ranked(sc, ids \ {b}, k - 1)} :
                  b \in Best(sc, ids)}

\* variant: the limit is not applied
ClientSearchNoLimit(pts, qv, limit) ==
    IF limit = None THEN {}
    ELSE IF limit[1] < 1 THEN {}
    ELSE Ranked(Scores(pts, qv), Eligible(pts, qv), Cardinality(DOMAIN pts))

\* client.search(query_vector, limit, score_threshold=0.31): the possible
\* result lists (ids), or {} when the request is rejected
ClientSearch(pts, qv, limit) ==
    IF limit = None THEN {}
    ELSE IF limit[1] < 1 THEN {}
    ELSE Ranked(Scores(pts, qv), Eligible(pts, qv), limit[1])

RECURSIVE SortedIds(_)
SortedIds(ids) ==
    IF ids = {} THEN <<>>
    ELSE LET m == CHOOSE i \in ids : \A j \in ids : i <= j
         IN <<m>> \o SortedIds(ids \ {m})

\* client.scroll(collection_name)[0]: the first page, in the order of the
\* id values
Scroll(pts, limit) ==
    SubSeq(SortedIds(DOMAIN pts), 1, Min(limit, Cardinality(DOMAIN pts)))

\* variant: only one of the matching points is removed
DeleteFirstMatch(pts, question, answer) ==
    LET match == {i \in DOMAIN pts :
                    /\ pts[i].payload.question = question
                    /\ pts[i].payload.answer = answer}
        first == {i \in match : \A j \in match : i <= j}
    IN [i \in DOMAIN pts \ first |-> pts[i]]

\* variant: the two conditions are alternatives ("should") instead of "must"
DeleteByAnyField(pts, question, answer) ==
    LET keep == {i \in DOMAIN pts :
                   ~(\/ pts[i].payload.question = question
                     \/ pts[i].payload.answer = answer)}
    IN [i \in keep |-> pts[i]]

\* client.delete(points_selector=Filter(must=[question == q, answer == a]))
DeleteByFilter(pts, question, answer) ==
    LET keep == {i \in DOMAIN pts :
                   ~(/\ pts[i].payload.question = question
                     /\ pts[i].payload.answer = answer)}
    IN [i \in keep |-> pts[i]]

\* COLLECTION_NAME not in [c.name for c in client.get_collections().collections]
CollectionMissing(colls) == COLLECTION_NAME \notin colls

Payloads(pts, ids) == [n \in 1..Len(ids) |-> pts[ids[n]].payload]

\* raise HTTPException(status_code=500, detail=str(e))
HTTPException(op, req, calls, message) ==
    [op |-> op, req |-> req, status |-> 500, detail |-> message,
     body |-> <<>>, results |-> <<>>, calls |-> calls]

Ok(op, req, calls, body, results) ==
    [op |-> op, req |-> req, status |-> 200, detail |-> "",
     body |-> body, results |-> results, calls |-> calls]

\* no request is being answered
Idle ==
    [op |-> "idle", req |-> <<>>, status |-> 0, detail |-> "",
     body |-> <<>>, results |-> <<>>, calls |-> <<>>]

(* ------------------------------ actions ------------------------------- *)
\* an empty Qdrant, no service process started yet
Init ==
    /\ collections = {}
    /\ points = EmptyPoints
    /\ issued = {}
    /\ pc = [p \in Procs |-> "down"]
    /\ resp = Idle
    /\ nAdds = 0
    /\ anyDelete = FALSE
    /\ deleted = {}

Serving == \E p \in Procs : pc[p] = "serving"

\* start-up, line 29: client.get_collections() and the test of the name;
\* when the call raises the import fails and the process stays down
StartCheck(p) ==
    \E fault \in {"none", "store"} :
      /\ resp.op = "idle"
      /\ pc[p] = "down"
      /\ pc' = [pc EXCEPT ![p] = IF fault = "store" THEN "down"
                                 ELSE IF CollectionMissing(collections)
                                 THEN "recreate" ELSE "serving"]
      /\ UNCHANGED <<collections, points, issued, resp, nAdds, anyDelete, deleted>>

\* start-up, line 30: recreate_collection, first half (delete_collection);
\* when the call raises nothing is deleted and the import fails
RecreateDelete(p) ==
    \E fault \in {"none", "store"} :
      /\ resp.op = "idle"
      /\ pc[p] = "recreate"
      /\ IF fault = "store"
         THEN /\ pc' = [pc EXCEPT ![p] = "down"]
              /\ UNCHANGED <<collections, points>>
         ELSE /\ collections' = collections \ {COLLECTION_NAME}
              /\ points' = EmptyPoints
              /\ pc' = [pc EXCEPT ![p] = "create"]
      /\ UNCHANGED <<issued, resp, nAdds, anyDelete, deleted>>

\* start-up, line 30: recreate_collection, second half (create_collection);
\* it raises when the store cannot be reached or the collection exists
\* again, and the import fails with the collection left as it is
RecreateCreate(p) ==
    \E fault \in {"none", "store"} :
      /\ resp.op = "idle"
      /\ pc[p] = "create"
      /\ IF fault = "none" /\ CollectionMissing(collections)
         THEN /\ collections' = collections \cup {COLLECTION_NAME}
              /\ pc' = [pc EXCEPT ![p] = "serving"]
         ELSE /\ collections' = collections
              /\ pc' = [pc EXCEPT ![p] = "down"]
      /\ UNCHANGED <<points, issued, resp, nAdds, anyDelete, deleted>>

\* a serving process is stopped (to be started again)
Stop(p) ==
    /\ resp.op = "idle"
    /\ pc[p] = "serving"
    /\ pc' = [pc EXCEPT ![p] = "down"]
    /\ UNCHANGED <<collections, points, issued, resp, nAdds, anyDelete, deleted>>

\* str(e) of a store call that raises: the store cannot be reached (fault),
\* or it answers that the collection is gone
StoreFailure(fault) == IF fault # "none" THEN StoreError ELSE NotFoundError

\* variant: a failing upsert has already written the point
AddOpWriteThenFail(question, answer, fault, id) ==
    LET req == [question |-> question, answer |-> answer]
        point == PointStruct(id, Embed(Template(question, answer)),
                             question, answer)
    IN IF fault = "encode"
       THEN /\ resp' = HTTPException("add", req, <<"encode">>, EncodeError)
            /\ UNCHANGED <<collections, points, issued, pc, nAdds, anyDelete,
                           deleted>>
       ELSE IF fault = "none" /\ CollectionMissing(collections)
       THEN /\ resp' = HTTPException("add", req, <<"encode", "upsert">>,
                                     StoreFailure(fault))
            /\ UNCHANGED <<collections, points, issued, pc, nAdds, anyDelete,
                           deleted>>
       ELSE /\ points' = Upsert(points, point)
            /\ issued' = issued \cup {id}
            /\ nAdds' = nAdds + 1
            /\ deleted' = deleted \ {req}
            /\ resp' = IF fault = "upsert"
                       THEN HTTPException("add", req, <<"encode", "upsert">>,
                                          StoreError)
                       ELSE Ok("add", req, <<"encode", "upsert">>,
                               [status |-> "ok",
                                message |-> "Question-answer added successfully"],
                               <<>>)
            /\ UNCHANGED <<collections, pc, anyDelete>>

\* POST /add; id is the value uuid4() draws
AddOp(question, answer, fault, id) ==
    LET req == [question |-> question, answer |-> answer]
        combined == Template(question, answer)
        embedding == Embed(combined)
        point == PointStruct(id, embedding, question, answer)
    IN IF fault = "encode"
       THEN /\ resp' = HTTPException("add", req, <<"encode">>, EncodeError)
            /\ UNCHANGED <<collections, points, issued, pc, nAdds, anyDelete,
                           deleted>>
       ELSE IF fault = "upsert" \/ CollectionMissing(collections)
       THEN /\ resp' = HTTPException("add", req, <<"encode", "upsert">>,
                                     StoreFailure(fault))
            /\ UNCHANGED <<collections, points, issued, pc, nAdds, anyDelete,
                           deleted>>
       ELSE /\ points' = Upsert(points, point)
            /\ issued' = issued \cup {id}
            /\ nAdds' = nAdds + 1
            /\ deleted' = deleted \ {req}
            /\ resp' = Ok("add", req, <<"encode", "upsert">>,
                          [status |-> "ok",
                           message |-> "Question-answer added successfully"],
                          <<>>)
            /\ UNCHANGED <<collections, pc, anyDelete>>

Add ==
    /\ resp.op = "idle"
    /\ Serving
    /\ nAdds < MaxAdds
    /\ \E question \in Questions, answer \in Answers, fault \in Faults,
          id \in uuid4(Ids, issued) :
          AddOp(question, answer, fault, id)

\* POST /search
Search ==
    \E data \in SearchBodies, fault \in {"none", "encode", "search"} :
      LET query == data.query
          top == GetTop(data)
          embedding == Embed(query)
          outcomes == ClientSearch(points, embedding, top)
      IN /\ resp.op = "idle"
         /\ Serving
         /\ IF fault = "encode"
            THEN resp' = HTTPException("search", data, <<"encode">>, EncodeError)
            ELSE IF top = None
            THEN resp' = HTTPException("search", data, <<"encode", "search">>,
                                       LimitError)
            ELSE IF fault = "search"
            THEN resp' = HTTPException("search", data, <<"encode", "search">>,
                                       StoreFailure(fault))
            ELSE IF outcomes = {}
            THEN resp' = HTTPException("search", data, <<"encode", "search">>,
                                       LimitError)
            ELSE IF CollectionMissing(collections)
            THEN resp' = HTTPException("search", data, <<"encode", "search">>,
                                       StoreFailure(fault))
            ELSE \E results \in outcomes :
                   resp' = Ok("search", data, <<"encode", "search">>,
                              Payloads(points, results), results)
         /\ UNCHANGED <<collections, points, issued, pc, nAdds, anyDelete, deleted>>

\* GET /all
All ==
    \E fault \in {"none", "scroll"} :
      /\ resp.op = "idle"
      /\ Serving
      /\ IF fault = "scroll" \/ CollectionMissing(collections)
         THEN resp' = HTTPException("all", None, <<"scroll">>,
                                    StoreFailure(fault))
         ELSE LET page == Scroll(points, ScrollLimit)
              IN resp' = Ok("all", None, <<"scroll">>, Payloads(points, page), page)
      /\ UNCHANGED <<collections, points, issued, pc, nAdds, anyDelete, deleted>>

\* POST /delete
Delete ==
    \E question \in Questions, answer \in Answers, fault \in {"none", "delete"} :
      LET req == [question |-> question, answer |-> answer]
      IN /\ resp.op = "idle"
         /\ Serving
         /\ IF fault = "delete" \/ CollectionMissing(collections)
            THEN /\ resp' = HTTPException("delete", req, <<"delete">>,
                                          StoreFailure(fault))
                 /\ UNCHANGED <<collections, points, nAdds, anyDelete, deleted>>
            ELSE /\ points' = DeleteByFilter(points, question, answer)
                 /\ resp' = Ok("delete", req, <<"delete">>, TRUE, <<>>)
                 /\ anyDelete' = TRUE
                 /\ deleted' = deleted \cup {req}
                 /\ UNCHANGED <<collections, nAdds>>
         /\ UNCHANGED <<issued, pc>>

\* the response has been sent; the next request can be handled
Deliver ==
    /\ resp.op # "idle"
    /\ resp' = Idle
    /\ UNCHANGED <<collections, points, issued, pc, nAdds, anyDelete, deleted>>

Start == \E p \in Procs : StartCheck(p) \/ RecreateDelete(p) \/ RecreateCreate(p)

Restart == \E p \in Procs : Stop(p)

Next == Add \/ Search \/ All \/ Delete \/ Deliver \/ Start \/ Restart

Spec == Init /\ [][Next]_vars

(* A second specification for the size of the page GET /all returns: one   *)
(* service process, only add and all, over two pairs, up to MaxAddsAll     *)
(* records.                                                                *)
AllQuestions == Questions
AllAnswers == {<<"w3">>}
AllIds == 1..MaxAddsAll
AllProc == "p1"

AddForAll ==
    /\ resp.op = "idle"
    /\ Serving
    /\ nAdds < MaxAddsAll
    /\ \E question \in AllQuestions, answer \in AllAnswers, fault \in Faults,
          id \in uuid4(AllIds, issued) :
          AddOp(question, answer, fault, id)

StartForAll ==
    StartCheck(AllProc) \/ RecreateDelete(AllProc) \/ RecreateCreate(AllProc)

NextAll == AddForAll \/ All \/ Deliver \/ StartForAll

SpecAll == Init /\ [][NextAll]_vars

TypeOK ==
    /\ collections \subseteq {COLLECTION_NAME}
    /\ DOMAIN points \subseteq issued
    /\ Cardinality(issued) = nAdds
    /\ CollectionMissing(collections) => points = EmptyPoints
    /\ deleted \subseteq Pairs
    /\ resp.status \in {0, 200, 500}

(* ------------------------------ claims -------------------------------- *)
SearchOk == resp.op = "search" /\ resp.status = 200
AllOk == resp.op = "all" /\ resp.status = 200
InBody(p) == \E n \in 1..Len(resp.body) : resp.body[n] = p
Stored(p) == \E i \in DOMAIN points : points[i].payload = p

\* cosine similarity of u and v is at least num/den
CosAtLeast(u, v, num, den) ==
    /\ Dot(u, v) >= 0
    /\ den * den * Dot(u, v) * Dot(u, v) >= num * num * Dot(u, u) * Dot(v, v)

\* cosine similarity of u and v is above num/den
CosAbove(u, v, num, den) ==
    /\ Dot(u, v) > 0
    /\ den * den * Dot(u, v) * Dot(u, v) > num * num * Dot(u, u) * Dot(v, v)

\* the text add embeds for a payload, written out independently of Template
TemplateText(p) == <<"Vopros:">> \o p.question \o <<"Otvet:">> \o p.answer

\* C1 (as claimed): after N successful adds and no delete, a successful
\* GET /all returns exactly N payloads.
C1_ListAllReturnsEveryRecord ==
    (AllOk /\ ~anyDelete) => Len(resp.body) = nAdds

\* C2: once delete(q, a) has succeeded, and as long as no later add has
\* written the same pair, no record with that pair is stored and no
\* successful search or GET /all returns it.
C2_DeletedPairNeverReturned ==
    \A p \in deleted :
        /\ ~Stored(p)
        /\ (SearchOk \/ AllOk) => ~InBody(p)

C2_Witness ==
    /\ SearchOk
    /\ Len(resp.body) > 0
    /\ \E p \in deleted : p.question = resp.req.query

\* C3: a successful search returns at most top results, each with cosine
\* similarity to the query at or above 0.31; fewer than top, also none, may
\* be returned.
C3_SearchAtMostTopAboveThreshold ==
    SearchOk =>
        /\ "top" \in DOMAIN resp.req => Len(resp.body) <= resp.req.top
        /\ Len(resp.body) = Len(resp.results)
        /\ \A n \in 1..Len(resp.results) :
              /\ resp.results[n] \in DOMAIN points
              /\ resp.body[n] = points[resp.results[n]].payload
              /\ CosAtLeast(Embed(resp.req.query),
                            points[resp.results[n]].vector,
                            ThresholdNum, ThresholdDen)

C3_Witness ==
    /\ SearchOk
    /\ Len(resp.body) > 0
    /\ Len(resp.body) < resp.req.top
    /\ Cardinality(DOMAIN points) > Len(resp.body)

\* C4 (as claimed): a search whose body has no top field, and whose backend
\* calls do not fail, answers as a search with top = 3.
C4_MissingTopDefaultsToThree ==
    (/\ resp.op = "search"
     /\ "top" \notin DOMAIN resp.req
     /\ resp.detail \notin {EncodeError, StoreError, NotFoundError})
    => /\ resp.status = 200
       /\ resp.results \in ClientSearch(points, Embed(resp.req.query), <<3>>)

\* C5 (as claimed): no step of a start-up (the check of the collection
\* name, the two halves of recreate_collection) changes the stored records.
C5_StartupKeepsRecords ==
    [][(\E p \in Procs : pc[p] # "serving" /\ pc'[p] # pc[p])
          => points' = points]_vars

\* C6: a successful add stores its pair under an id no stored record has,
\* leaves every stored record as it was and raises the record count by one;
\* adding the same pair twice leaves two records.
C6_AddCreatesFreshRecord ==
    [][(resp'.op = "add" /\ resp'.status = 200) =>
          /\ \A i \in DOMAIN points : i \in DOMAIN points' /\ points'[i] = points[i]
          /\ Cardinality(DOMAIN points') = Cardinality(DOMAIN points) + 1
          /\ \A i \in DOMAIN points' \ DOMAIN points :
                points'[i].payload = resp'.req]_vars

C6_Witness ==
    /\ resp.op = "add"
    /\ resp.status = 200
    /\ \E i, j \in DOMAIN points :
          i # j /\ points[i].payload = resp.req /\ points[j].payload = resp.req

\* C7: a successful delete(q, a) answers true and leaves every record whose
\* question differs from q or whose answer differs from a as it was; with
\* no matching record the store is unchanged.
C7_DeleteLeavesOthers ==
    [][(resp'.op = "delete" /\ resp'.status = 200) =>
          /\ resp'.body = TRUE
          /\ \A i \in DOMAIN points :
                points[i].payload # resp'.req =>
                    (i \in DOMAIN points' /\ points'[i] = points[i])
          /\ (~\E i \in DOMAIN points : points[i].payload = resp'.req)
                => points' = points]_vars

C7_Witness ==
    /\ resp.op = "delete"
    /\ resp.status = 200
    /\ \E i \in DOMAIN points :
          /\ points[i].payload.question = resp.req.question
          /\ points[i].payload.answer # resp.req.answer
    /\ \E i \in DOMAIN points :
          /\ points[i].payload.question # resp.req.question
          /\ points[i].payload.answer = resp.req.answer

\* C8: an add that fails answers 500 with the message of the call that
\* failed, calls no backend twice and leaves the stored records as they
\* were; any add stores one complete record or nothing.
C8_FailedAddStoresNothing ==
    [][resp'.op = "add" =>
          /\ resp'.status # 200 =>
                /\ resp'.status = 500
                /\ IF resp'.calls = <<"encode">>
                   THEN resp'.detail = EncodeError
                   ELSE resp'.detail \in {StoreError, NotFoundError}
                /\ points' = points
          /\ resp'.calls \in {<<"encode">>, <<"encode", "upsert">>}
          /\ \/ points' = points
             \/ \E i \in DOMAIN points' \ DOMAIN points :
                   /\ DOMAIN points' = DOMAIN points \cup {i}
                   /\ points'[i].payload = resp'.req
                   /\ points'[i].vector = Embed(TemplateText(resp'.req))
                   /\ \A j \in DOMAIN points : points'[j] = points[j]]_vars

C8_Witness ==
    /\ resp.op = "add"
    /\ resp.status = 500
    /\ resp.detail = StoreError
    /\ points # EmptyPoints

\* C9 (as claimed): a successful search whose query is the question of a
\* stored pair returns that pair.
C9_RoundTripAlways ==
    SearchOk =>
        \A i \in DOMAIN points :
            points[i].payload.question = resp.req.query => InBody(points[i].payload)

\* C9 (amended): a successful search whose query is the question of a stored
\* pair returns that pair whenever the stored vector's cosine similarity to
\* the query's embedding is above 0.31 and at most top stored records score
\* above 0.31.
C9_RoundTripWhenInReach ==
    SearchOk =>
        LET qv == Embed(resp.req.query)
            above == {i \in DOMAIN points :
                        CosAbove(qv, points[i].vector, ThresholdNum, ThresholdDen)}
        IN \A i \in DOMAIN points :
              (/\ points[i].payload.question = resp.req.query
               /\ i \in above
               /\ Cardinality(above) <= resp.req.top)
              => InBody(points[i].payload)

C9_Witness ==
    /\ SearchOk
    /\ LET qv == Embed(resp.req.query)
           above == {i \in DOMAIN points :
                       CosAbove(qv, points[i].vector, ThresholdNum, ThresholdDen)}
       IN /\ Cardinality(above) = resp.req.top
          /\ Cardinality(above) >= 1
          /\ \E i \in above :
                /\ points[i].payload.question = resp.req.query
                /\ InBody(points[i].payload)
          /\ \E j \in DOMAIN points \ above :
                points[j].payload.question = resp.req.query

\* C10: every stored vector is the embedding of the template text of the
\* record's own question and answer (not of the question or answer alone),
\* and no step changes a record that stays stored.
C10_VectorsDerivedFromPair ==
    /\ [](\A i \in DOMAIN points :
            /\ points[i].vector = Embed(TemplateText(points[i].payload))
            /\ points[i].vector # Embed(points[i].payload.question)
            /\ points[i].vector # Embed(points[i].payload.answer))
    /\ [][\A i \in DOMAIN points \cap DOMAIN points' : points'[i] = points[i]]_vars

C10_Witness ==
    /\ Cardinality(DOMAIN points) >= 2
    /\ \E i, j \in DOMAIN points : points[i].vector # points[j].vector
    /\ anyDelete
====
